---- MODULE Spec2Model ----
(***************************************************************************)
(* The mychardev character driver: one shared byte buffer (dev_buf) with   *)
(* its logical size (dev_buf_size), a readiness flag (data_available), a   *)
(* mutex (lock) and a wait queue (wq), and the file operations open,       *)
(* release, read, write, poll and unlocked_ioctl on it.                    *)
(*                                                                         *)
(* The repository holds the driver twice: src/mychardev.c (dev_read,       *)
(* dev_write, ...) and src/unnamed/part_000 (device_read, device_write,    *)
(* ...).  The variable `driver` says which of the two is loaded; the two   *)
(* differ in the bound dev_write / device_write compares a write against   *)
(* and in the address dev_read / device_read copies from.                  *)
(*                                                                         *)
(* Every user context p is one process with one open file (its session);   *)
(* dev_offset[p] is that file's position (the loff_t the code is handed).  *)
(* A system call is a sequence of steps: pc[p] is the context's position in  *)
(* the call.  Stores to dev_buf are seen only under the mutex, so a copy and the *)
(* store to dev_buf_size next to it are one step; dev_buf_size and         *)
(* data_available are read without the mutex (dev_read's first test,       *)
(* dev_write's first test in mychardev.c, dev_poll), so a store to each is *)
(* a step of its own.                                                      *)
(***************************************************************************)
EXTENDS Integers, Sequences, FiniteSets, TLC

(* ----------------------------- bounds ---------------------------------- *)

\* The buffer's capacity (DEV_BUF_LEN, BUF_LEN: 256 in the source), scaled
\* down so that every buffer content can be enumerated.
DEV_BUF_LEN == 2

\* User data bytes are 0..MaxByte.
MaxByte == 1

\* Number of user contexts, each with its own open file.
NProcs == 3

\* Number of error codes a failing setup call of the init function can
\* return (-NErrnos .. -1).
NErrnos == 3

\* Number of contexts that use the device where every context may make any
\* call at any time (Spec, SeqSpec).
NCallers == 2

(* ------------------------- program constants --------------------------- *)

EINVAL == 22
EFAULT == 14
ERESTARTSYS == 512
SUCCESSFUL == 0
POLLIN == 1
POLLRDNORM == 64

\* size_t arithmetic is modulo 2^64 in the build; any modulus above every
\* count of the model wraps the same way.
SIZE_T_MOD == 2 ^ 16

Drivers == {"mychardev.c", "part_000"}

Procs == 1 .. NProcs

\* The contexts that make calls in Spec and SeqSpec.
Callers == 1 .. NCallers

\* In PollSpec the first context writes and resets, and the others poll
\* (with a timeout, so that they may sleep) and read.
Writers == {1}

Waiters == Procs \ Writers
NoOwner == 0

Bytes == 0 .. MaxByte

\* A byte of kernel memory that lies outside dev_buf.
OutOfBuf == -1

\* The largest count a caller passes to read or write: one more than the
\* capacity, so that over-long requests happen.
MaxCount == DEV_BUF_LEN + 1

\* What a caller can have in the n bytes of its buffer.
UserData(n) == [1 .. n -> Bytes]

Cmds == {"IOCTL_RESET_BUF", "OTHER"}

\* last_write when no write has committed since the module was loaded or
\* since the last reset.
NoWrite == <<OutOfBuf>>

VARIABLES
    driver,          \* which source file is the loaded module
    dev_buf,         \* static char dev_buf[DEV_BUF_LEN]
    dev_buf_size,    \* static size_t dev_buf_size
    data_available,  \* static int data_available
    lock,            \* the mutex: its owner, or NoOwner
    wq,              \* the wait queue: contexts registered by poll_wait
    woken,           \* registered contexts a wake_up_interruptible has woken
    opened,          \* opened[p]: p holds an open file
    dev_offset,      \* dev_offset[p]: the file position of p's file
    pc,              \* pc[p]: p's position in its system call ("idle": in user space)
    amt,             \* amt[p]: the count argument (amt_to_copy, amt_to_write)
    hist,            \* history: the call that returned last (see Init, SeqInit)
    last_write,      \* history: the data the last complete copy_from_user took
    mod              \* the module's init function: its position and its calls

vars ==
    <<driver, dev_buf, dev_buf_size, data_available, lock, wq, woken, opened,
      dev_offset, pc, amt, hist, last_write, mod>>

\* What the call before did, as far as a later call can tell: a write that
\* returned its count, a read that returned bytes, a reset, or none of them.
Kind(c) ==
    IF c.op = "write" /\ c.ret >= 0 THEN "written"
    ELSE IF c.op = "read" /\ c.ret > 0 THEN "read"
    ELSE IF c.op = "ioctl" /\ c.ret = SUCCESSFUL THEN "reset"
    ELSE "other"

\* The record of a returned call: the call and its arguments (count, cmd),
\* the file position it began at (pos) and ended at (end), its return
\* value, the bytes it stored in the caller's buffer, and (after) what the
\* call that returned before it did.
Call(o, n, c, pos, end, r, out) ==
    [op |-> o, count |-> n, cmd |-> c, pos |-> pos, end |-> end, ret |-> r,
     out |-> out, after |-> Kind(hist)]

NoCall ==
    [op |-> "none", count |-> 0, cmd |-> "", pos |-> 0, end |-> 0, ret |-> 0,
     out |-> <<>>, after |-> "other"]

\* hist when only the call that returns in this very step is recorded.
HistOff == [NoCall EXCEPT !.after = "off"]

\* The history after a step in which no call returns.
Keep(h) == IF h.after = "off" THEN HistOff ELSE h

\* The four setup calls of the init function, in its order, and the call
\* that releases what each of them creates.
Setup == <<"alloc_chrdev_region", "cdev_add", "class_create", "device_create">>

Release == <<"unregister_chrdev_region", "cdev_del", "class_destroy", "device_destroy">>

\* A call the init function has made and what it returned (for
\* class_create and device_create: 0 for a valid pointer, PTR_ERR otherwise).
Made(f, r) == [f |-> f, r |-> r]

\* mod before the init function runs, and after an init in which every
\* setup call has succeeded.
NotInstalled ==
    [pc |-> "alloc_chrdev_region", ret |-> 0, log |-> <<>>, undo |-> <<>>,
     then |-> "returned"]

Installed ==
    [pc |-> "returned", ret |-> 0, log |-> [i \in 1 .. 4 |-> Made(Setup[i], 0)],
     undo |-> <<>>, then |-> "returned"]

\* The static data of the module, as the loader sets it up.
Statics ==
    /\ driver \in Drivers
    /\ dev_buf = [i \in 1 .. DEV_BUF_LEN |-> 0]
    /\ dev_buf_size = 0
    /\ data_available = 0
    /\ lock = NoOwner
    /\ wq = {}
    /\ woken = {}
    /\ opened = [p \in Procs |-> FALSE]
    /\ dev_offset = [p \in Procs |-> 0]
    /\ pc = [p \in Procs |-> "idle"]
    /\ amt = [p \in Procs |-> 0]
    /\ last_write = NoWrite

\* The state in which the module has been loaded and no file is open.
Loaded ==
    /\ Statics
    /\ mod = Installed

\* Any interleaving of the contexts' calls; hist shows a call only in the
\* state it returns into.
Init ==
    /\ Loaded
    /\ hist = HistOff

\* The calls run one after the other, and hist records the last of them.
SeqInit ==
    /\ Loaded
    /\ hist = NoCall

(* ------------------------- calls and returns --------------------------- *)

Others(p) == Procs \ {p}

Alone(p) == \A q \in Others(p) : pc[q] = "idle"

\* No call is in flight.
Quiet == \A p \in Procs : pc[p] = "idle"

\* The history once call c has returned.
Record(c) == IF hist.after = "off" THEN [c EXCEPT !.after = "off"] ELSE c

\* p enters a system call with count n, and goes to `to`.
Enter(p, n, to) ==
    /\ pc[p] = "idle"
    /\ pc' = [pc EXCEPT ![p] = to]
    /\ amt' = [amt EXCEPT ![p] = n]
    /\ hist' = Keep(hist)

\* The call of p that is in flight returns; c is its record.
Return(p, c) ==
    /\ pc[p] # "idle"
    /\ pc' = [pc EXCEPT ![p] = "idle"]
    /\ amt' = [amt EXCEPT ![p] = 0]
    /\ hist' = Record(c)

\* A call that returns from its first test: it enters and returns at once.
EnterReturn(p, c) ==
    /\ pc[p] = "idle"
    /\ UNCHANGED <<pc, amt>>
    /\ hist' = Record(c)

(* ------------------------------ the mutex ------------------------------ *)

\* mutex_lock replaced by a mutex_trylock whose result is not looked at:
\* the caller goes on whether or not it has the mutex.
mutex_trylock_unchecked(p) ==
    /\ lock' = IF lock = NoOwner THEN p ELSE lock

\* mutex_lock / a successful mutex_lock_interruptible: taken when free.
mutex_lock(p) ==
    /\ lock = NoOwner
    /\ lock' = p

\* mutex_lock_interruptible fails only while it sleeps, that is while
\* another context holds the mutex, and then leaves the mutex alone.
mutex_lock_interrupted(p) ==
    /\ lock # NoOwner
    /\ lock # p
    /\ lock' = lock

mutex_unlock(p) ==
    /\ lock' = NoOwner

(* ---------------------------- open, release ---------------------------- *)

\* A new struct file: its position is 0.
dev_open(p) ==
    /\ ~opened[p]
    /\ EnterReturn(p, Call("open", 0, "", 0, 0, 0, <<>>))
    /\ opened' = [opened EXCEPT ![p] = TRUE]
    /\ dev_offset' = [dev_offset EXCEPT ![p] = 0]
    /\ UNCHANGED <<mod, driver, dev_buf, dev_buf_size, data_available, lock, wq, woken,
                   last_write>>

\* The struct file, and its position with it, is gone.
dev_release(p) ==
    /\ opened[p]
    /\ EnterReturn(p, Call("release", 0, "", dev_offset[p], 0, 0, <<>>))
    /\ opened' = [opened EXCEPT ![p] = FALSE]
    /\ dev_offset' = [dev_offset EXCEPT ![p] = 0]
    /\ UNCHANGED <<mod, driver, dev_buf, dev_buf_size, data_available, lock, wq, woken,
                   last_write>>

(* -------------------------------- write -------------------------------- *)

\* The bound a write's count is compared against: dev_buf_size in
\* mychardev.c, BUF_LEN in part_000.
dev_write_limit == dev_buf_size

\* device_write_limit with the test off by one (>= taken for >).
device_write_limit_one_more == DEV_BUF_LEN + 1

device_write_limit == DEV_BUF_LEN

write_limit == IF driver = "mychardev.c" THEN dev_write_limit ELSE device_write_limit

\* if (amt_to_write > limit) return -EINVAL;    (without the mutex)
dev_write_check(p, n) ==
    /\ opened[p]
    /\ IF n > write_limit
       THEN EnterReturn(p, Call("write", n, "", dev_offset[p], dev_offset[p], -EINVAL, <<>>))
       ELSE Enter(p, n, "w_lock")
    /\ UNCHANGED <<mod, driver, dev_buf, dev_buf_size, data_available, lock, wq, woken,
                   opened, dev_offset, last_write>>

dev_write_lock(p) ==
    /\ pc[p] = "w_lock"
    /\ mutex_lock(p)
    /\ pc' = [pc EXCEPT ![p] = "w_copy"]
    /\ hist' = Keep(hist)
    /\ UNCHANGED <<mod, driver, dev_buf, dev_buf_size, data_available, wq, woken, opened,
                   dev_offset, amt, last_write>>

\* dev_write_interrupted with the mutex_unlock of the -EFAULT path copied
\* into the -ERESTARTSYS path.
dev_write_interrupted_unlocks(p) ==
    /\ pc[p] = "w_lock"
    /\ lock # NoOwner
    /\ lock # p
    /\ mutex_unlock(p)
    /\ Return(p, Call("write", amt[p], "", dev_offset[p], dev_offset[p], -ERESTARTSYS, <<>>))
    /\ UNCHANGED <<mod, driver, dev_buf, dev_buf_size, data_available, wq, woken, opened,
                   dev_offset, last_write>>

\* return -ERESTARTSYS;
dev_write_interrupted(p) ==
    /\ pc[p] = "w_lock"
    /\ mutex_lock_interrupted(p)
    /\ Return(p, Call("write", amt[p], "", dev_offset[p], dev_offset[p], -ERESTARTSYS, <<>>))
    /\ UNCHANGED <<mod, driver, dev_buf, dev_buf_size, data_available, wq, woken, opened,
                   dev_offset, last_write>>

\* buf after copy_from_user has stored the first k of the n bytes b; when
\* k < n the copy faulted, and copy_from_user zeroes the n - k bytes it
\* did not copy.
copy_from_user(buf, b, n, k) ==
    [i \in 1 .. DEV_BUF_LEN |->
        IF i <= k THEN b[i] ELSE IF i <= n THEN 0 ELSE buf[i]]

\* copy_from_user succeeds on the caller's bytes b; dev_buf_size = amt_to_write.
dev_write_copy(p, b) ==
    /\ pc[p] = "w_copy"
    /\ dev_buf' = copy_from_user(dev_buf, b, amt[p], amt[p])
    /\ dev_buf_size' = amt[p]
    /\ last_write' = b
    /\ pc' = [pc EXCEPT ![p] = "w_flag"]
    /\ hist' = Keep(hist)
    /\ UNCHANGED <<mod, driver, data_available, lock, wq, woken, opened, dev_offset,
                   amt>>

\* copy_from_user faults after the k bytes b: mutex_unlock, return -EFAULT.
dev_write_fault(p, b, k) ==
    /\ pc[p] = "w_copy"
    /\ k < amt[p]
    /\ dev_buf' = copy_from_user(dev_buf, b, amt[p], k)
    /\ mutex_unlock(p)
    /\ Return(p, Call("write", amt[p], "", dev_offset[p], dev_offset[p], -EFAULT, <<>>))
    /\ UNCHANGED <<mod, driver, dev_buf_size, data_available, wq, woken, opened,
                   dev_offset, last_write>>

\* data_available = 1; mutex_unlock(&lock);
dev_write_flag(p) ==
    /\ pc[p] = "w_flag"
    /\ data_available' = 1
    /\ mutex_unlock(p)
    /\ pc' = [pc EXCEPT ![p] = "w_wake"]
    /\ hist' = Keep(hist)
    /\ UNCHANGED <<mod, driver, dev_buf, dev_buf_size, wq, woken, opened, dev_offset,
                   amt, last_write>>

\* dev_write_wake with a wake-up that wakes one waiter only (as for
\* exclusive waiters), not every waiter on the queue.
dev_write_wake_one(p) ==
    /\ pc[p] = "w_wake"
    /\ woken' = woken \cup (IF wq = {} THEN {} ELSE {CHOOSE w \in wq : TRUE})
    /\ Return(p, Call("write", amt[p], "", dev_offset[p], dev_offset[p], amt[p], <<>>))
    /\ UNCHANGED <<mod, driver, dev_buf, dev_buf_size, data_available, lock, wq, opened,
                   dev_offset, last_write>>

\* wake_up_interruptible(&wq); return amt_to_write;
dev_write_wake(p) ==
    /\ pc[p] = "w_wake"
    /\ woken' = woken \cup wq
    /\ Return(p, Call("write", amt[p], "", dev_offset[p], dev_offset[p], amt[p], <<>>))
    /\ UNCHANGED <<mod, driver, dev_buf, dev_buf_size, data_available, lock, wq, opened,
                   dev_offset, last_write>>

(* -------------------------------- read --------------------------------- *)

\* size_t subtraction: it wraps.
size_sub(a, b) == (a - b) % SIZE_T_MOD

\* The byte at index i (from 0) of the memory that begins at dev_buf.
kernel_byte(i) == IF i < DEV_BUF_LEN THEN dev_buf[i + 1] ELSE OutOfBuf

\* The index (from 0) in dev_buf of the first byte a read at file position
\* off copies: dev_buf in mychardev.c, device_buffer + offset in part_000.
dev_read_from(off) == 0

device_read_from(off) == off

read_from(off) == IF driver = "mychardev.c" THEN dev_read_from(off) ELSE device_read_from(off)

\* The n bytes copy_to_user stores in the caller's buffer, from index base on.
copy_to_user(base, n) == [i \in 1 .. n |-> kernel_byte(base + i - 1)]

\* amt_data_remaining = dev_buf_size - *dev_offset, and the clamped count.
amt_data_remaining(p) == size_sub(dev_buf_size, dev_offset[p])

amt_to_copy(p) == IF amt[p] > amt_data_remaining(p) THEN amt_data_remaining(p) ELSE amt[p]

\* if (*dev_offset >= dev_buf_size) return 0;    (without the mutex)
dev_read_check(p, n) ==
    /\ opened[p]
    /\ IF dev_offset[p] >= dev_buf_size
       THEN EnterReturn(p, Call("read", n, "", dev_offset[p], dev_offset[p], 0, <<>>))
       ELSE Enter(p, n, "r_lock")
    /\ UNCHANGED <<mod, driver, dev_buf, dev_buf_size, data_available, lock, wq, woken,
                   opened, dev_offset, last_write>>

dev_read_lock(p) ==
    /\ pc[p] = "r_lock"
    /\ mutex_lock(p)
    /\ pc' = [pc EXCEPT ![p] = "r_copy"]
    /\ hist' = Keep(hist)
    /\ UNCHANGED <<mod, driver, dev_buf, dev_buf_size, data_available, wq, woken, opened,
                   dev_offset, amt, last_write>>

\* return -ERESTARTSYS;
dev_read_interrupted(p) ==
    /\ pc[p] = "r_lock"
    /\ mutex_lock_interrupted(p)
    /\ Return(p, Call("read", amt[p], "", dev_offset[p], dev_offset[p], -ERESTARTSYS, <<>>))
    /\ UNCHANGED <<mod, driver, dev_buf, dev_buf_size, data_available, wq, woken, opened,
                   dev_offset, last_write>>

\* read_flag that clears data_available only when the read has used up
\* the buffer.
read_flag_clear_if_exhausted(p) ==
    IF dev_offset[p] + amt_to_copy(p) >= dev_buf_size THEN 0 ELSE data_available

\* What a read that has copied leaves in data_available: data_available = 0.
read_flag(p) == 0

\* copy_to_user succeeds: *dev_offset += amt_to_copy; data_available = 0;
\* mutex_unlock; return amt_copied.
dev_read_copy(p) ==
    /\ pc[p] = "r_copy"
    /\ dev_offset' = [dev_offset EXCEPT ![p] = @ + amt_to_copy(p)]
    /\ data_available' = read_flag(p)
    /\ mutex_unlock(p)
    /\ Return(p, Call("read", amt[p], "", dev_offset[p], dev_offset'[p], amt_to_copy(p),
                   copy_to_user(read_from(dev_offset[p]), amt_to_copy(p))))
    /\ UNCHANGED <<mod, driver, dev_buf, dev_buf_size, wq, woken, opened, last_write>>

\* dev_read_fault without the mutex_unlock before return -EFAULT.
dev_read_fault_keeps_lock(p, k) ==
    /\ pc[p] = "r_copy"
    /\ k < amt_to_copy(p)
    /\ Return(p, Call("read", amt[p], "", dev_offset[p], dev_offset[p], -EFAULT,
                   copy_to_user(read_from(dev_offset[p]), k)))
    /\ UNCHANGED <<mod, driver, dev_buf, dev_buf_size, data_available, lock, wq, woken,
                   opened, dev_offset, last_write>>

\* copy_to_user faults after k bytes: mutex_unlock, return -EFAULT.
dev_read_fault(p, k) ==
    /\ pc[p] = "r_copy"
    /\ k < amt_to_copy(p)
    /\ mutex_unlock(p)
    /\ Return(p, Call("read", amt[p], "", dev_offset[p], dev_offset[p], -EFAULT,
                   copy_to_user(read_from(dev_offset[p]), k)))
    /\ UNCHANGED <<mod, driver, dev_buf, dev_buf_size, data_available, wq, woken, opened,
                   dev_offset, last_write>>

(* -------------------------------- ioctl -------------------------------- *)

\* switch (cmd): default: return -EINVAL;
dev_ioctl(p, cmd) ==
    /\ opened[p]
    /\ IF cmd = "IOCTL_RESET_BUF"
       THEN Enter(p, 0, "i_lock")
       ELSE EnterReturn(p, Call("ioctl", 0, cmd, dev_offset[p], dev_offset[p], -EINVAL, <<>>))
    /\ UNCHANGED <<mod, driver, dev_buf, dev_buf_size, data_available, lock, wq, woken,
                   opened, dev_offset, last_write>>

\* mutex_lock(&lock): not interruptible.
dev_ioctl_lock(p) ==
    /\ pc[p] = "i_lock"
    /\ mutex_lock(p)
    /\ pc' = [pc EXCEPT ![p] = "i_reset"]
    /\ hist' = Keep(hist)
    /\ UNCHANGED <<mod, driver, dev_buf, dev_buf_size, data_available, wq, woken, opened,
                   dev_offset, amt, last_write>>

\* memset that zeroes the dev_buf_size bytes in use only.
memset_valid_bytes(buf) ==
    [i \in 1 .. DEV_BUF_LEN |-> IF i <= dev_buf_size THEN 0 ELSE buf[i]]

\* buf after memset(dev_buf, 0, DEV_BUF_LEN).
memset(buf) == [i \in 1 .. DEV_BUF_LEN |-> 0]

\* dev_ioctl_reset that also rewinds the file positions of the open files.
dev_ioctl_reset_rewinds(p) ==
    /\ pc[p] = "i_reset"
    /\ dev_buf' = memset(dev_buf)
    /\ dev_buf_size' = 0
    /\ dev_offset' = [q \in Procs |-> 0]
    /\ last_write' = NoWrite
    /\ pc' = [pc EXCEPT ![p] = "i_flag"]
    /\ hist' = Keep(hist)
    /\ UNCHANGED <<mod, driver, data_available, lock, wq, woken, opened, amt>>

\* memset(dev_buf, 0, DEV_BUF_LEN); dev_buf_size = 0;
dev_ioctl_reset(p) ==
    /\ pc[p] = "i_reset"
    /\ dev_buf' = memset(dev_buf)
    /\ dev_buf_size' = 0
    /\ last_write' = NoWrite
    /\ pc' = [pc EXCEPT ![p] = "i_flag"]
    /\ hist' = Keep(hist)
    /\ UNCHANGED <<mod, driver, data_available, lock, wq, woken, opened, dev_offset,
                   amt>>

\* data_available = 0; mutex_unlock(&lock); return SUCCESSFUL;
dev_ioctl_flag(p) ==
    /\ pc[p] = "i_flag"
    /\ data_available' = 0
    /\ mutex_unlock(p)
    /\ Return(p, Call("ioctl", 0, "IOCTL_RESET_BUF", dev_offset[p], dev_offset[p], SUCCESSFUL, <<>>))
    /\ UNCHANGED <<mod, driver, dev_buf, dev_buf_size, wq, woken, opened, dev_offset,
                   last_write>>

(* -------------------------------- poll --------------------------------- *)

\* poll_wait(file, &wq, wait): the caller is put on the wait queue.
dev_poll_wait(p) ==
    /\ opened[p]
    /\ Enter(p, 0, "p_mask")
    /\ wq' = wq \cup {p}
    /\ UNCHANGED <<mod, driver, dev_buf, dev_buf_size, data_available, lock, woken, opened,
                   dev_offset, last_write>>

\* poll_mask that takes the buffer's size, not the flag, for readiness.
poll_mask_from_size == IF dev_buf_size # 0 THEN POLLIN + POLLRDNORM ELSE 0

\* if (data_available) mask = mask | POLLIN | POLLRDNORM;
poll_mask == IF data_available # 0 THEN POLLIN + POLLRDNORM ELSE 0

\* return mask;    (data_available is read without the mutex); the poll
\* call takes the caller off the wait queue when it returns.
dev_poll(p) ==
    /\ pc[p] = "p_mask"
    /\ wq' = wq \ {p}
    /\ woken' = woken \ {p}
    /\ Return(p, Call("poll", 0, "", dev_offset[p], dev_offset[p], poll_mask, <<>>))
    /\ UNCHANGED <<mod, driver, dev_buf, dev_buf_size, data_available, lock, opened,
                   dev_offset, last_write>>

\* The poll system call has found mask = 0 and a timeout that has not run
\* out: the caller sleeps, still on the wait queue poll_wait put it on.
dev_poll_sleep(p) ==
    /\ pc[p] = "p_mask"
    /\ poll_mask = 0
    /\ pc' = [pc EXCEPT ![p] = "p_sleep"]
    /\ hist' = Keep(hist)
    /\ UNCHANGED <<mod, driver, dev_buf, dev_buf_size, data_available, lock, wq, woken,
                   opened, dev_offset, amt, last_write>>

\* A wake_up_interruptible(&wq) has woken the sleeper: the system call
\* takes the wake-up and calls dev_poll again (poll_wait queues a caller once).
dev_poll_wakeup(p) ==
    /\ pc[p] = "p_sleep"
    /\ p \in woken
    /\ woken' = woken \ {p}
    /\ pc' = [pc EXCEPT ![p] = "p_mask"]
    /\ hist' = Keep(hist)
    /\ UNCHANGED <<mod, driver, dev_buf, dev_buf_size, data_available, lock, wq, opened,
                   dev_offset, amt, last_write>>

(* ----------------------------- module init ----------------------------- *)

\* The variables the init function leaves alone.
file_vars ==
    <<driver, dev_buf, dev_buf_size, data_available, lock, wq, woken, opened,
      dev_offset, pc, amt, hist, last_write>>

\* What a setup call returns: 0 (for class_create and device_create: a
\* valid pointer), or a negative errno (an error pointer).
Errnos == (0 - NErrnos) .. -1

Results == Errnos \cup {SUCCESSFUL}

\* myclass is a valid pointer: class_create has been called and succeeded.
ClassValid ==
    \E i \in 1 .. Len(mod.log) : mod.log[i] = Made("class_create", SUCCESSFUL)

\* Where the init function goes, and with which return value, once
\* class_create has failed with e and the cleanup calls are made:
\* mychardev_init has no return there and goes on to device_create;
\* myfirstchar_init returns PTR_ERR(my_class).
mychardev_init_class_failed(e) == [then |-> "device_create", ret |-> SUCCESSFUL]

myfirstchar_init_class_failed(e) == [then |-> "returned", ret |-> e]

init_class_failed(e) ==
    IF driver = "mychardev.c" THEN mychardev_init_class_failed(e)
    ELSE myfirstchar_init_class_failed(e)

\* The same once device_create has failed with e: mychardev_init goes on
\* to its final return 0; myfirstchar_init returns PTR_ERR(my_device).
mychardev_init_device_failed(e) == [then |-> "returned", ret |-> SUCCESSFUL]

myfirstchar_init_device_failed(e) == [then |-> "returned", ret |-> e]

init_device_failed(e) ==
    IF driver = "mychardev.c" THEN mychardev_init_device_failed(e)
    ELSE myfirstchar_init_device_failed(e)

\* mod once the cleanup calls u have been started after a failure; the
\* function will go to t.then with return value t.ret.
Unwind(m, u, t) == [m EXCEPT !.pc = "undo", !.undo = u, !.then = t.then, !.ret = t.ret]

\* ret = alloc_chrdev_region(...); if (ret < SUCCESSFUL) return ret;
mychardev_init_alloc(r) ==
    /\ mod.pc = "alloc_chrdev_region"
    /\ mod' = [mod EXCEPT !.log = Append(@, Made("alloc_chrdev_region", r)),
                          !.pc = IF r < SUCCESSFUL THEN "returned" ELSE "cdev_add",
                          !.ret = r]
    /\ UNCHANGED file_vars

\* ret = cdev_add(...); if (ret < SUCCESSFUL) { unregister_chrdev_region; return ret; }
mychardev_init_cdev_add(r) ==
    /\ mod.pc = "cdev_add"
    /\ LET m == [mod EXCEPT !.log = Append(@, Made("cdev_add", r))]
       IN  mod' = IF r < SUCCESSFUL
                  THEN Unwind(m, <<"unregister_chrdev_region">>,
                              [then |-> "returned", ret |-> r])
                  ELSE [m EXCEPT !.pc = "class_create"]
    /\ UNCHANGED file_vars

\* myclass = class_create(CLASS_NAME); if (IS_ERR(myclass)) { cdev_del;
\* unregister_chrdev_region; ... }
mychardev_init_class_create(r) ==
    /\ mod.pc = "class_create"
    /\ LET m == [mod EXCEPT !.log = Append(@, Made("class_create", r))]
       IN  mod' = IF r # SUCCESSFUL
                  THEN Unwind(m, <<"cdev_del", "unregister_chrdev_region">>,
                              init_class_failed(r))
                  ELSE [m EXCEPT !.pc = "device_create"]
    /\ UNCHANGED file_vars

\* mydevice = device_create(myclass, ...); if (IS_ERR(mydevice))
\* { class_destroy; cdev_del; unregister_chrdev_region; ... }  return 0;
\* device_create returns an error pointer when myclass is one.
mychardev_init_device_create(r) ==
    /\ mod.pc = "device_create"
    /\ ~ClassValid => r # SUCCESSFUL
    /\ LET m == [mod EXCEPT !.log = Append(@, Made("device_create", r))]
       IN  mod' = IF r # SUCCESSFUL
                  THEN Unwind(m, <<"class_destroy", "cdev_del",
                                   "unregister_chrdev_region">>,
                              init_device_failed(r))
                  ELSE [m EXCEPT !.pc = "returned", !.ret = SUCCESSFUL]
    /\ UNCHANGED file_vars

\* The next cleanup call of a failure branch; after the last one the
\* function returns or goes on.
mychardev_init_undo ==
    /\ mod.pc = "undo"
    /\ mod' = [mod EXCEPT !.log = Append(@, Made(Head(mod.undo), SUCCESSFUL)),
                          !.undo = Tail(@),
                          !.pc = IF Tail(mod.undo) = <<>> THEN mod.then ELSE "undo"]
    /\ UNCHANGED file_vars

(* ------------------------------ the system ----------------------------- *)

Next ==
    \E p \in Callers :
        \/ dev_open(p)
        \/ dev_release(p)
        \/ \E n \in 0 .. MaxCount : dev_write_check(p, n)
        \/ dev_write_lock(p)
        \/ dev_write_interrupted(p)
        \/ \E b \in UserData(amt[p]) : dev_write_copy(p, b)
        \/ \E k \in 0 .. DEV_BUF_LEN : \E b \in UserData(k) : dev_write_fault(p, b, k)
        \/ dev_write_flag(p)
        \/ dev_write_wake(p)
        \/ \E n \in 0 .. MaxCount : dev_read_check(p, n)
        \/ dev_read_lock(p)
        \/ dev_read_interrupted(p)
        \/ dev_read_copy(p)
        \/ \E k \in 0 .. MaxCount : dev_read_fault(p, k)
        \/ \E cmd \in Cmds : dev_ioctl(p, cmd)
        \/ dev_ioctl_lock(p)
        \/ dev_ioctl_reset(p)
        \/ dev_ioctl_flag(p)
        \/ dev_poll_wait(p)
        \/ dev_poll(p)

Spec == Init /\ [][Next]_vars

\* One call at a time: a context steps only while no other is in a call
\* (so the mutex is free whenever it is asked for, and no wait for it is
\* interrupted).
SeqNext ==
    \E p \in Callers :
        \/ Alone(p) /\ dev_open(p)
        \/ Alone(p) /\ dev_release(p)
        \/ Alone(p) /\ \E n \in 0 .. MaxCount : dev_write_check(p, n)
        \/ Alone(p) /\ dev_write_lock(p)
        \/ Alone(p) /\ \E b \in UserData(amt[p]) : dev_write_copy(p, b)
        \/ Alone(p) /\ \E k \in 0 .. DEV_BUF_LEN : \E b \in UserData(k) : dev_write_fault(p, b, k)
        \/ Alone(p) /\ dev_write_flag(p)
        \/ Alone(p) /\ dev_write_wake(p)
        \/ Alone(p) /\ \E n \in 0 .. MaxCount : dev_read_check(p, n)
        \/ Alone(p) /\ dev_read_lock(p)
        \/ Alone(p) /\ dev_read_copy(p)
        \/ Alone(p) /\ \E k \in 0 .. MaxCount : dev_read_fault(p, k)
        \/ Alone(p) /\ \E cmd \in Cmds : dev_ioctl(p, cmd)
        \/ Alone(p) /\ dev_ioctl_lock(p)
        \/ Alone(p) /\ dev_ioctl_reset(p)
        \/ Alone(p) /\ dev_ioctl_flag(p)
        \/ Alone(p) /\ dev_poll_wait(p)
        \/ Alone(p) /\ dev_poll(p)

SeqSpec == SeqInit /\ [][SeqNext]_vars

\* One context writes and resets while the others poll and read; a poll
\* that finds nothing to read may sleep until a write wakes it.
PollNext ==
    \/ \E p \in Procs : dev_open(p)
    \/ \E p \in Writers :
        \/ \E n \in 0 .. MaxCount : dev_write_check(p, n)
        \/ dev_write_lock(p)
        \/ \E b \in UserData(amt[p]) : dev_write_copy(p, b)
        \/ dev_write_flag(p)
        \/ dev_write_wake(p)
        \/ dev_ioctl(p, "IOCTL_RESET_BUF")
        \/ dev_ioctl_lock(p)
        \/ dev_ioctl_reset(p)
        \/ dev_ioctl_flag(p)
    \/ \E p \in Waiters :
        \/ \E n \in 0 .. MaxCount : dev_read_check(p, n)
        \/ dev_read_lock(p)
        \/ dev_read_copy(p)
        \/ dev_poll_wait(p)
        \/ dev_poll(p)
        \/ dev_poll_sleep(p)
        \/ dev_poll_wakeup(p)

PollSpec == Init /\ [][PollNext]_vars

\* The n bytes of a caller's buffer that holds zeros.
Zeros(n) == [i \in 1 .. n |-> 0]

\* The steps of a call of p that wait for nothing: a context that is in
\* the kernel and not asleep goes on running.  (The callers' buffers hold
\* zeros, and a copy that faults does so at its first byte.)
Runs(p) ==
    \/ dev_write_copy(p, Zeros(amt[p]))
    \/ dev_write_fault(p, Zeros(0), 0)
    \/ dev_write_flag(p)
    \/ dev_write_wake(p)
    \/ dev_read_copy(p)
    \/ dev_read_fault(p, 0)
    \/ dev_ioctl_reset(p)
    \/ dev_ioctl_flag(p)

\* p leaves its wait for the mutex: it gets the mutex, or its
\* interruptible wait is interrupted.
Acquires(p) ==
    \/ dev_write_lock(p)
    \/ dev_write_interrupted(p)
    \/ dev_read_lock(p)
    \/ dev_read_interrupted(p)
    \/ dev_ioctl_lock(p)

\* The calls that take the mutex (write, read, reset), made by the
\* contexts of Callers at any time.
LiveNext ==
    \E p \in Callers :
        \/ dev_open(p)
        \/ \E n \in 0 .. MaxCount : dev_write_check(p, n)
        \/ \E n \in 0 .. MaxCount : dev_read_check(p, n)
        \/ dev_ioctl(p, "IOCTL_RESET_BUF")
        \/ Acquires(p)
        \/ Runs(p)

\* A running context is scheduled again and again (weak fairness of its
\* steps), and the mutex hands itself to a waiter that finds it free again
\* and again (strong fairness of the acquisition: the kernel's mutex queues
\* its waiters).
LiveSpec ==
    /\ Init
    /\ [][LiveNext]_vars
    /\ \A p \in Callers : WF_vars(Runs(p)) /\ SF_vars(Acquires(p))

\* The module is being loaded: its init function runs, each setup call
\* succeeding or failing.
ModInit ==
    /\ Statics
    /\ hist = HistOff
    /\ mod = NotInstalled

InitNext ==
    \/ \E r \in Results : mychardev_init_alloc(r)
    \/ \E r \in Results : mychardev_init_cdev_add(r)
    \/ \E r \in Results : mychardev_init_class_create(r)
    \/ \E r \in Results : mychardev_init_device_create(r)
    \/ mychardev_init_undo

InitSpec == ModInit /\ [][InitNext]_vars

(* ------------------------------ properties ----------------------------- *)

Min(a, b) == IF a < b THEN a ELSE b

\* The first n bytes of dev_buf.
Contents(n) == [i \in 1 .. n |-> dev_buf[i]]

\* The bytes of dev_buf at indexes from .. from + n - 1 (counted from 0).
Slice(from, n) == [i \in 1 .. n |-> dev_buf[from + i]]

\* The return values with which a call reports that its lock acquisition
\* or its transfer failed.
CollaboratorFailed == {-ERESTARTSYS, -EFAULT}

\* A call has returned in this step (SeqSpec).
Returns == hist' # hist

WritePcs == {"w_lock", "w_copy", "w_flag", "w_wake"}

\* C1: round trip.  A write of n bytes b, 0 < n <= capacity, that neither
\* its lock acquisition nor its transfer fails, followed directly by a read
\* at file position 0 with count n (that neither of them fails), makes the
\* read return n and store exactly b in the caller's buffer.
C1_RoundTrip ==
    [][(/\ Returns
        /\ hist.op = "write"
        /\ hist.count \in 1 .. DEV_BUF_LEN
        /\ hist.ret \notin CollaboratorFailed
        /\ hist'.op = "read"
        /\ hist'.pos = 0
        /\ hist'.count = hist.count
        /\ hist'.ret \notin CollaboratorFailed)
       => (/\ hist'.ret = hist.count
           /\ Len(last_write) = hist.count
           /\ hist'.out = last_write)]_vars

\* C2: write acceptance and postcondition.  Between calls, when the call
\* that returned last is a write of n <= capacity bytes whose lock
\* acquisition and transfer did not fail, it returned n, dev_buf begins with
\* the n bytes written, dev_buf_size = n and data_available = 1.
C2_WriteAccepted ==
    (/\ Quiet
     /\ hist.op = "write"
     /\ hist.count <= DEV_BUF_LEN
     /\ hist.ret \notin CollaboratorFailed)
    => (/\ hist.ret = hist.count
        /\ dev_buf_size = hist.count
        /\ Len(last_write) = hist.count
        /\ Contents(hist.count) = last_write
        /\ data_available = 1)

\* C3: a write of more than capacity bytes never gets as far as the mutex;
\* it returns -EINVAL in a step that leaves dev_buf, dev_buf_size,
\* data_available, the mutex and every file position as they were.
C3_OversizeRejected ==
    /\ [](\A p \in Procs : pc[p] \in WritePcs => amt[p] <= DEV_BUF_LEN)
    /\ [][(hist'.op = "write" /\ hist'.count > DEV_BUF_LEN)
          => (/\ hist'.ret = -EINVAL
              /\ UNCHANGED <<dev_buf, dev_buf_size, data_available, lock,
                             dev_offset, last_write>>)]_vars

\* C3 happens: an over-long write has just been rejected while the buffer
\* holds data that is flagged available.
C3_Witness ==
    /\ hist.op = "write"
    /\ hist.count > DEV_BUF_LEN
    /\ hist.ret = -EINVAL
    /\ dev_buf_size > 0
    /\ data_available = 1

\* C4: consecutive slices.  A read that returns without error from file
\* position o < dev_buf_size returns k = min(count, dev_buf_size - o), stores
\* the bytes dev_buf[o .. o+k) and leaves the position at o + k; and a read
\* of count >= 1 at position 0 directly after a write of n >= 1 bytes (no
\* lock or transfer failure in either) returns the first min(count, n) bytes
\* written.
C4_ConsecutiveSlices ==
    [][/\ (/\ Returns
           /\ hist'.op = "read"
           /\ hist'.ret >= 0
           /\ hist'.pos < dev_buf_size)
          => (/\ hist'.ret = Min(hist'.count, dev_buf_size - hist'.pos)
              /\ hist'.out = Slice(hist'.pos, hist'.ret)
              /\ hist'.end = hist'.pos + hist'.ret)
       /\ (/\ Returns
           /\ hist.op = "write"
           /\ hist.count \in 1 .. DEV_BUF_LEN
           /\ hist.ret \notin CollaboratorFailed
           /\ hist'.op = "read"
           /\ hist'.pos = 0
           /\ hist'.count >= 1
           /\ hist'.ret \notin CollaboratorFailed)
          => (/\ hist'.ret = Min(hist'.count, hist.count)
              /\ Len(last_write) = hist.count
              /\ hist'.out = [i \in 1 .. hist'.ret |-> last_write[i]]
              /\ hist'.end = hist'.ret)]_vars

\* C5: eager clear.  A poll directly after a write that returned its count
\* reports POLLIN | POLLRDNORM; a poll directly after a read that returned
\* at least one byte reports 0; and data_available goes from 0 to 1 only in
\* the step of a write that sets it.
C5_EagerClear ==
    /\ []((hist.op = "poll" /\ hist.after = "written") => hist.ret = POLLIN + POLLRDNORM)
    /\ []((hist.op = "poll" /\ hist.after = "read") => hist.ret = 0)
    /\ [][(data_available = 0 /\ data_available' # 0)
          => \E p \in Procs : pc[p] = "w_flag" /\ pc'[p] = "w_wake"]_vars

\* C5 happens: a read has returned bytes and left bytes unread, and the poll
\* directly after it reports not readable.
C5_Witness ==
    /\ hist.op = "poll"
    /\ hist.after = "read"
    /\ hist.ret = 0
    /\ \E p \in Procs : opened[p] /\ 0 < dev_offset[p] /\ dev_offset[p] < dev_buf_size

\* C6: reset.  Between calls, when the call that returned last is a reset,
\* every byte of dev_buf is zero, dev_buf_size = 0 and data_available = 0; a
\* read directly after a reset returns 0 and stores nothing, and a poll
\* directly after a reset reports 0.
C6_Reset ==
    /\ (Quiet /\ hist.op = "ioctl" /\ hist.ret = SUCCESSFUL)
       => (/\ \A i \in 1 .. DEV_BUF_LEN : dev_buf[i] = 0
           /\ dev_buf_size = 0
           /\ data_available = 0)
    /\ (hist.op = "read" /\ hist.after = "reset") => (hist.ret = 0 /\ hist.out = <<>>)
    /\ (hist.op = "poll" /\ hist.after = "reset") => hist.ret = 0

\* C6 happens: a reset has returned directly after a write that had
\* stored data.
C6_Witness ==
    /\ Quiet
    /\ hist.op = "ioctl"
    /\ hist.ret = SUCCESSFUL
    /\ hist.after = "written"

\* C7: between calls, data_available = 1 implies dev_buf_size > 0.
C7_FlagImpliesData == Quiet => (data_available = 1 => dev_buf_size > 0)

\* C8: last committed write wins.  Once every call has returned, and no
\* reset has run since a write last committed, dev_buf_size is that write's
\* length and dev_buf begins with exactly that write's bytes.
C8_LastWriteWins ==
    (Quiet /\ last_write # NoWrite)
    => (dev_buf_size = Len(last_write) /\ Contents(Len(last_write)) = last_write)

\* C9: a call that returns -EFAULT does so in a step that frees the mutex
\* and leaves dev_buf, dev_buf_size, data_available and every file position
\* as they were.
C9_FaultAllOrNothing ==
    [][(hist'.ret = -EFAULT)
       => (/\ lock' = NoOwner
           /\ UNCHANGED <<dev_buf, dev_buf_size, data_available, dev_offset>>)]_vars

\* C10: a context that waits for the mutex does not hold it; when it leaves
\* the wait without the mutex, its call returns -ERESTARTSYS in a step that
\* leaves the mutex with its holder and dev_buf, dev_buf_size,
\* data_available and every file position as they were; and -ERESTARTSYS is
\* returned in no other way.
C10_Interrupted ==
    /\ [](\A p \in Procs : pc[p] \in {"w_lock", "r_lock"} => lock # p)
    /\ [][/\ \A p \in Procs :
               (pc[p] \in {"w_lock", "r_lock"} /\ pc'[p] = "idle")
               => (/\ hist'.ret = -ERESTARTSYS
                   /\ lock' = lock
                   /\ lock' # p
                   /\ UNCHANGED <<dev_buf, dev_buf_size, data_available, dev_offset>>)
          /\ (hist'.ret = -ERESTARTSYS)
             => \E p \in Procs : pc[p] \in {"w_lock", "r_lock"} /\ pc'[p] = "idle"]_vars

\* C10 happens: a read or write has just returned -ERESTARTSYS while
\* another context holds the mutex.
C10_Witness ==
    /\ hist.ret = -ERESTARTSYS
    /\ hist.op \in {"read", "write"}
    /\ lock # NoOwner

\* Bit b (a power of two) is set in mask m.
HasBit(m, b) == (m \div b) % 2 = 1

\* C11: poll does not wait.  Both of its steps can be taken whoever holds
\* the mutex; the first puts the caller on the wait queue, the second
\* returns a mask with POLLIN set exactly when data_available is nonzero in
\* the state it reads it in; and both leave dev_buf, dev_buf_size,
\* data_available, the mutex and every file position as they were.
C11_PollFrame ==
    /\ [](\A p \in Procs :
            /\ (opened[p] /\ pc[p] = "idle") => ENABLED dev_poll_wait(p)
            /\ pc[p] = "p_mask" => ENABLED dev_poll(p))
    /\ [][\A p \in Procs :
            /\ (pc[p] = "idle" /\ pc'[p] = "p_mask")
               => (/\ wq' = wq \cup {p}
                   /\ UNCHANGED <<dev_buf, dev_buf_size, data_available, lock,
                                  dev_offset>>)
            /\ (pc[p] = "p_mask" /\ pc'[p] = "idle")
               => (/\ hist'.op = "poll"
                   /\ HasBit(hist'.ret, POLLIN) <=> data_available # 0
                   /\ UNCHANGED <<dev_buf, dev_buf_size, data_available, lock,
                                  dev_offset>>)]_vars

\* C11 happens: a poll has returned readable while another context holds
\* the mutex.
C11_Witness ==
    /\ hist.op = "poll"
    /\ HasBit(hist.ret, POLLIN)
    /\ lock # NoOwner

\* The contexts that are in a poll call, between poll_wait and the return.
Polling == {p \in Procs : pc[p] \in {"p_mask", "p_sleep"}}

\* C12: no lost wake-up.  A context in a poll call is on the wait queue
\* before it reads data_available; the wake-up of a write wakes every
\* context that is in a poll call at that time, however many; a sleeper that
\* has not been woken while data_available is set exists only until the
\* write that set it reaches its wake-up; data_available is cleared only by
\* the step of a read or of a reset; and a poll that reads data_available
\* as set returns readable, the buffer's size being (once the mutex is free)
\* the length of the write that committed last.
C12_NoLostWakeup ==
    /\ [](Polling \subseteq wq)
    /\ [](\A p \in Procs :
            (pc[p] = "p_sleep" /\ p \notin woken /\ data_available # 0)
            => \E q \in Procs : pc[q] = "w_wake")
    /\ [][/\ (\E q \in Procs : pc[q] = "w_wake" /\ pc'[q] = "idle")
             => Polling \subseteq woken'
          /\ (data_available # 0 /\ data_available' = 0)
             => \E q \in Procs : /\ pc[q] \in {"r_copy", "i_flag"}
                                  /\ pc'[q] = "idle"
          /\ \A p \in Procs :
               (pc[p] = "p_mask" /\ pc'[p] # "p_mask" /\ data_available # 0)
               => (/\ pc'[p] = "idle"
                   /\ HasBit(hist'.ret, POLLIN)
                   /\ lock = NoOwner
                      => (/\ last_write # NoWrite
                          /\ dev_buf_size = Len(last_write)))]_vars

\* C12 happens: two contexts sleep in poll, neither woken yet, and a write
\* has set data_available and is about to wake them.
C12_Witness ==
    /\ Cardinality({p \in Procs : pc[p] = "p_sleep" /\ p \notin woken}) >= 2
    /\ data_available # 0
    /\ \E q \in Procs : pc[q] = "w_wake"

\* C13: an ioctl with a command other than IOCTL_RESET_BUF returns an error
\* code that is not the -EINVAL with which write rejects an over-long
\* count, in a step that leaves the mutex, dev_buf, dev_buf_size,
\* data_available and every file position as they were.
C13_UnknownCommand ==
    [][(hist'.op = "ioctl" /\ hist'.cmd # "IOCTL_RESET_BUF")
       => (/\ hist'.ret < 0
           /\ hist'.ret # -EINVAL
           /\ UNCHANGED <<dev_buf, dev_buf_size, data_available, lock,
                          dev_offset>>)]_vars

\* C14: a read that has taken the mutex stores in the caller's buffer at
\* most min(count, dev_buf_size - position) bytes, dev_buf_size being the
\* size while it holds the mutex; it stores none when its position is at or
\* past that size; and no byte it stores lies outside dev_buf.
C14_ReadSafeAgainstShrink ==
    [][(\E p \in Procs : pc[p] = "r_copy" /\ pc'[p] = "idle")
       => (/\ hist'.op = "read"
           /\ IF hist'.pos >= dev_buf_size
              THEN Len(hist'.out) = 0
              ELSE Len(hist'.out) <= Min(hist'.count, dev_buf_size - hist'.pos)
           /\ \A i \in 1 .. Len(hist'.out) : hist'.out[i] # OutOfBuf)]_vars

\* C15: readiness is truthful.  When a poll has reported POLLIN and the
\* next call is a read of count >= 1 at the file position the poll was made
\* at (the polling session's own position), and neither the read's lock
\* acquisition nor its transfer fails, the read returns at least one byte.
C15_ReadinessTruthful ==
    [][(/\ Returns
        /\ hist.op = "poll"
        /\ HasBit(hist.ret, POLLIN)
        /\ hist'.op = "read"
        /\ hist'.count >= 1
        /\ hist'.pos = hist.pos
        /\ hist'.ret \notin CollaboratorFailed)
       => hist'.ret >= 1]_vars

\* The positions between a call's lock acquisition and its mutex_unlock.
InCriticalSection(p) == pc[p] \in {"w_copy", "w_flag", "r_copy", "i_reset", "i_flag"}

\* C16: mutual exclusion.  A context is in a critical section exactly when
\* it is the mutex's owner (so at most one is), and every step that changes
\* dev_buf, dev_buf_size or data_available is a step of the owner inside
\* its critical section.
C16_MutualExclusion ==
    /\ [](\A p \in Procs : InCriticalSection(p) <=> lock = p)
    /\ [](Cardinality({p \in Procs : InCriticalSection(p)}) <= 1)
    /\ [][(\/ dev_buf' # dev_buf
           \/ dev_buf_size' # dev_buf_size
           \/ data_available' # data_available)
          => \E p \in Procs : /\ lock = p
                               /\ InCriticalSection(p)
                               /\ pc'[p] # pc[p]]_vars

\* C16 happens: a writer holds the mutex between its store to dev_buf_size
\* and its store to data_available while a read or a reset waits for it.
C16_Witness ==
    /\ \E p \in Procs : pc[p] = "w_flag" /\ lock = p
    /\ \E q \in Procs : pc[q] \in {"r_lock", "i_lock"}

\* C17: the file position of an open file changes only in the step in which
\* a read by its own context returns without error, and then by the number
\* of bytes the read returns; every other step (another context's read, a
\* write, a reset, a poll, a call that fails) leaves it as it is; and the
\* position of a file that has just been opened is 0.
C17_OffsetFrame ==
    [][\A p \in Procs :
        /\ (opened[p] /\ opened'[p] /\ dev_offset'[p] # dev_offset[p])
           => (/\ pc[p] = "r_copy"
               /\ pc'[p] = "idle"
               /\ hist'.op = "read"
               /\ hist'.ret > 0
               /\ hist'.pos = dev_offset[p]
               /\ dev_offset'[p] = dev_offset[p] + hist'.ret)
        /\ (~opened[p] /\ opened'[p]) => dev_offset'[p] = 0]_vars

\* C17 happens: a context's position has been advanced by its reads, and
\* a write by another context has just returned without rewinding it.
C17_Witness ==
    /\ hist.op = "write"
    /\ hist.ret > 0
    /\ hist.pos = 0
    /\ \E p \in Procs : opened[p] /\ dev_offset[p] > 0

\* C19: in every reachable state, in the middle of calls too,
\* 0 <= dev_buf_size <= DEV_BUF_LEN.
C19_SizeWithinCapacity == 0 <= dev_buf_size /\ dev_buf_size <= DEV_BUF_LEN

\* C19 happens: a write has filled the buffer to its capacity while
\* another context is in the middle of a read.
C19_Witness ==
    /\ dev_buf_size = DEV_BUF_LEN
    /\ hist.op = "write"
    /\ hist.ret = DEV_BUF_LEN
    /\ \E p \in Procs : pc[p] \in {"r_lock", "r_copy"}

\* C18: no call returns holding the mutex; and, the scheduling being fair,
\* every reset that waits for the mutex gets it, and every write and every
\* reset that waits for the mutex returns.
C18_LockReleased ==
    /\ [](\A p \in Procs : pc[p] = "idle" => lock # p)
    /\ \A p \in Callers :
         /\ (pc[p] = "i_lock") ~> (lock = p)
         /\ (pc[p] \in {"w_lock", "i_lock"}) ~> (pc[p] = "idle")

\* C18 happens: a call has just returned -EFAULT, the mutex is free
\* again, and another context waits for it for a reset.
C18_Witness ==
    /\ hist.ret = -EFAULT
    /\ lock = NoOwner
    /\ \E p \in Procs : pc[p] = "i_lock"

\* The calls of an init in which setup call k is the first to fail, with
\* error e: the setup calls 1 .. k, and then the release of what the calls
\* k-1, ..., 1 created, each once.
Unwound(k, e) ==
    [i \in 1 .. (2 * k - 1) |->
        IF i < k THEN Made(Setup[i], SUCCESSFUL)
        ELSE IF i = k THEN Made(Setup[k], e)
        ELSE Made(Release[2 * k - i], SUCCESSFUL)]

IsPrefix(a, b) == Len(a) <= Len(b) /\ \A i \in 1 .. Len(a) : a[i] = b[i]

\* C20: the calls the init function has made are at any time the beginning
\* of: the four setup calls all succeeding, or the setup calls up to the
\* first that fails followed by the releases of the earlier ones in reverse
\* order; when it returns it has made all of them, and it returns 0 in the
\* first case only and a negative code in the second.
C20_InitUnwinds ==
    /\ \/ IsPrefix(mod.log, Installed.log)
       \/ \E k \in 1 .. 4 : \E e \in Errnos : IsPrefix(mod.log, Unwound(k, e))
    /\ mod.pc = "returned"
       => \/ mod.log = Installed.log /\ mod.ret = SUCCESSFUL
          \/ \E k \in 1 .. 4 : \E e \in Errnos :
                mod.log = Unwound(k, e) /\ mod.ret < SUCCESSFUL

====
